---- MODULE Spec2Model ----
(***************************************************************************)
(* Model of spotify_dashboard_1.py: one Streamlit session over a static    *)
(* CSV file.  A script run is the sequence                                 *)
(*   load_data -> "df is None" guard -> sidebar widgets and filter ->      *)
(*   "filtered_df.empty" guard -> metrics -> artist/track tab ->           *)
(*   audio and trend tabs -> data explorer (export),                       *)
(* and every user interaction reruns the script from the top.              *)
(*                                                                         *)
(* Text is modelled as a sequence of one-character strings, so that        *)
(* str.split is computed on characters.  A float is modelled in tenths.    *)
(* Rows carry the columns the modelled statements read; the header         *)
(* normalisation of lines 87-102 is folded into the record field names.    *)
(***************************************************************************)
EXTENDS Integers, Sequences, FiniteSets, TLC

\* ------------------------------------------------------------------ bounds
\* Largest number of data rows in the source file.
MaxRows == 2

\* Scaled stand-ins for the 'Jumlah Artis Teratas' slider (5, 30, 15 in the
\* code) and for head(10), so that the cut-off falls inside MaxRows rows.
MinArtistsCount == 1
MaxArtistsCount == 2
DefaultArtistsCount == 2
TopTracksCount == 1

\* Largest number of widgets the user has moved away from their defaults at
\* any one time.
MaxMovedWidgets == 2

\* ------------------------------------------------------- program constants
PctMin == 0
PctMax == 100

Semua == "Semua"

\* pandas' missing value in a text column (an empty CSV cell).
NaN == "NaN"

\* The separator handed to str.split.
SplitSep == <<",", "_">>

\* ------------------------------------------------------------- text helpers
\* Code points of the characters used, for Python's string ordering.
CodePoint(c) ==
    CASE c = " " -> 32
      [] c = "," -> 44
      [] c = "A" -> 65
      [] c = "B" -> 66
      [] c = "_" -> 95

\* a < b in Python's lexicographic order of strings.
RECURSIVE StrLess(_, _)
StrLess(a, b) ==
    IF Len(b) = 0 THEN FALSE
    ELSE IF Len(a) = 0 THEN TRUE
    ELSE IF CodePoint(Head(a)) # CodePoint(Head(b))
         THEN CodePoint(Head(a)) < CodePoint(Head(b))
         ELSE StrLess(Tail(a), Tail(b))

\* sep occurs in s at position i.
OccursAt(s, sep, i) ==
    /\ i + Len(sep) - 1 <= Len(s)
    /\ \A k \in 1..Len(sep) : s[i + k - 1] = sep[k]

\* str.split(sep): left to right, non-overlapping occurrences of sep.
RECURSIVE SplitFrom(_, _, _, _)
SplitFrom(s, sep, i, cur) ==
    IF i > Len(s) THEN <<cur>>
    ELSE IF OccursAt(s, sep, i)
         THEN <<cur>> \o SplitFrom(s, sep, i + Len(sep), <<>>)
         ELSE SplitFrom(s, sep, i + 1, Append(cur, s[i]))

str_split(s, sep) == SplitFrom(s, sep, 1, <<>>)

\* ------------------------------------------------------------ sequence helpers
Range(s) == {s[i] : i \in 1..Len(s)}

\* The first n elements (DataFrame.head / the front of a Series).
head(s, n) == IF Len(s) <= n THEN s ELSE SubSeq(s, 1, n)

\* ------------------------------------------------------------- source file
Num(t) == [kind |-> "num", tenths |-> t]
Text == [kind |-> "text", tenths |-> 0]

RawRow(t, a, y, b, k, m, d, e, v, s) ==
    [track_name |-> t, artist_name |-> a, released_year |-> y, bpm |-> b,
     key |-> k, mode |-> m, danceability |-> d, energy |-> e, valence |-> v,
     streams |-> s]

\* The rows a source file is drawn from: single and multi-artist fields
\* ("A, B" as in the dataset, "B,_A" with the separator the code splits on),
\* an absent key, and the stream cells 5, -2, 3.7 and "N/A".
SourceRows ==
    { RawRow("t1", <<"A">>, 2021, 90, "C", "Major", 0, 0, 100, Num(50)),
      RawRow("t1", <<"A">>, 2021, 90, "C", "Major", 0, 0, 100, Num(-20)),
      RawRow("t2", <<"A", ",", " ", "B">>, 2022, 91, NaN, "Minor", 100, 100, 0, Num(50)),
      RawRow("t3", <<"B", ",", "_", "A">>, 2022, 91, "D", "Minor", 100, 50, 0, Num(37)),
      RawRow("t4", <<"B">>, 2021, 91, "C", "Minor", 50, 100, 100, Text) }

RECURSIVE SeqsUpTo(_, _)
SeqsUpTo(S, n) ==
    IF n = 0 THEN {<<>>}
    ELSE LET shorter == SeqsUpTo(S, n - 1)
         IN  shorter \cup {Append(q, x) : q \in {p \in shorter : Len(p) = n - 1}, x \in S}

Files ==
    {[status |-> "ok", rows |-> q] : q \in SeqsUpTo(SourceRows, MaxRows)}
        \cup {[status |-> "missing", rows |-> <<>>],
              [status |-> "unreadable", rows |-> <<>>]}

\* ------------------------------------------------------------------ load_data
\* Variant: unparseable text counted as 0 (a fillna(0) in place of dropna).
to_numeric_TextAsZero(cell) ==
    IF cell.kind = "num" THEN [nan |-> FALSE, tenths |-> cell.tenths]
    ELSE [nan |-> FALSE, tenths |-> 0]

\* pd.to_numeric(errors='coerce') of one cell: NaN for text, else the number.
to_numeric(cell) ==
    IF cell.kind = "num" THEN [nan |-> FALSE, tenths |-> cell.tenths]
    ELSE [nan |-> TRUE, tenths |-> 0]

\* astype('int64') of a float: the fraction is cut off, towards zero.
astype_int64(t) == IF t >= 0 THEN t \div 10 ELSE -((-t) \div 10)

\* Lines 105-107 for the rows of the file: coerce, drop the NaN rows, cast.
CoerceStreams(rows) ==
    LET coerced == [i \in 1..Len(rows) |->
                       [rows[i] EXCEPT !.streams = to_numeric(rows[i].streams)]]
        kept    == SelectSeq(coerced, LAMBDA r : ~r.streams.nan)
    IN  [i \in 1..Len(kept) |->
            [kept[i] EXCEPT !.streams = astype_int64(kept[i].streams.tenths)]]

\* Variant: the deduplication left out.
drop_duplicates_Skipped(rows) == rows

\* drop_duplicates(): a row stays unless an earlier row equals it in every
\* column.
RECURSIVE drop_duplicates(_)
drop_duplicates(rows) ==
    IF Len(rows) = 0 THEN <<>>
    ELSE LET front == drop_duplicates(SubSeq(rows, 1, Len(rows) - 1))
             last  == rows[Len(rows)]
         IN  IF last \in Range(front) THEN front ELSE Append(front, last)

\* Line 116.
Decade(year) == (year \div 10) * 10

AddDecade(rows) ==
    [i \in 1..Len(rows) |->
        [track_name |-> rows[i].track_name, artist_name |-> rows[i].artist_name,
         released_year |-> rows[i].released_year, bpm |-> rows[i].bpm,
         key |-> rows[i].key, mode |-> rows[i].mode,
         danceability |-> rows[i].danceability, energy |-> rows[i].energy,
         valence |-> rows[i].valence, streams |-> rows[i].streams,
         decade |-> Decade(rows[i].released_year)]]

\* Lines 87-116: the table built from the parsed rows.
NormalizedTable(rows) == AddDecade(drop_duplicates(CoerceStreams(rows)))

\* Variant: an empty table returned where the file cannot be found.
load_data_EmptyOnMissing(f) ==
    IF f.status = "unreadable" THEN [result |-> "raised", table |-> <<>>]
    ELSE [result |-> "table", table |-> NormalizedTable(f.rows)]

\* Lines 78-118.  read_csv raises FileNotFoundError for a missing file, which
\* load_data turns into None; any other failure of read_csv is not caught.
load_data(f) ==
    IF f.status = "missing" THEN [result |-> "none", table |-> <<>>]
    ELSE IF f.status = "unreadable" THEN [result |-> "raised", table |-> <<>>]
    ELSE [result |-> "table", table |-> NormalizedTable(f.rows)]

\* Line 123.
DfIsNone(result) == result = "none"

\* ------------------------------------------------------------ sidebar widgets
Min(S) == CHOOSE x \in S : \A y \in S : x <= y
Max(S) == CHOOSE x \in S : \A y \in S : x >= y

Column(rows, col) == {rows[i][col] : i \in 1..Len(rows)}

\* A range slider returns (lo, hi) with lo <= hi inside its limits.
RangePairs(S) == {<<lo, hi>> : lo \in S, hi \in S} \ {p \in S \X S : p[1] > p[2]}

\* Lines 139-150: the limits of the year and BPM sliders come from the table.
YearPairs(table) ==
    RangePairs(Min(Column(table, "released_year"))..Max(Column(table, "released_year")))

BpmPairs(table) == RangePairs(Min(Column(table, "bpm"))..Max(Column(table, "bpm")))

\* Lines 154-161: 'Semua' followed by the values present, NaN left out.
KeyChoices(table) == {Semua} \cup (Column(table, "key") \ {NaN})

ModeChoices(table) == {Semua} \cup (Column(table, "mode") \ {NaN})

\* Lines 164-166: sliders over 0..100; the stops the model moves them to.
PctStops == {PctMin, PctMax}

PctPairs == RangePairs(PctStops)

ArtistsCounts == MinArtistsCount..MaxArtistsCount

\* The values the widgets return on the first run.
DefaultWidgets(table) ==
    [selected_artists_count |-> DefaultArtistsCount,
     year_range |-> <<Min(Column(table, "released_year")), Max(Column(table, "released_year"))>>,
     bpm_range |-> <<Min(Column(table, "bpm")), Max(Column(table, "bpm"))>>,
     selected_key |-> Semua,
     selected_mode |-> Semua,
     danceability |-> <<PctMin, PctMax>>,
     energy |-> <<PctMin, PctMax>>,
     valence |-> <<PctMin, PctMax>>]

MovedWidgets(table, w) == {f \in DOMAIN w : w[f] # DefaultWidgets(table)[f]}

\* The values the widgets can return on a rerun: those of the previous run,
\* with at most one widget moved by the interaction that caused the rerun.
OneWidgetMoved(table, w) ==
    {w}
        \cup {[w EXCEPT !.selected_artists_count = n] : n \in ArtistsCounts}
        \cup {[w EXCEPT !.year_range = p] : p \in YearPairs(table)}
        \cup {[w EXCEPT !.bpm_range = p] : p \in BpmPairs(table)}
        \cup {[w EXCEPT !.selected_key = k] : k \in KeyChoices(table)}
        \cup {[w EXCEPT !.selected_mode = m] : m \in ModeChoices(table)}
        \cup {[w EXCEPT !.danceability = p] : p \in PctPairs}
        \cup {[w EXCEPT !.energy = p] : p \in PctPairs}
        \cup {[w EXCEPT !.valence = p] : p \in PctPairs}

WidgetsAfterInteraction(table, w) ==
    {w2 \in OneWidgetMoved(table, w) :
        Cardinality(MovedWidgets(table, w2)) <= MaxMovedWidgets}

\* ----------------------------------------------------------------- the filter
\* Variant: the upper year bound exclusive.
BasicMask_ExclusiveYear(r, w) ==
    /\ r.released_year >= w.year_range[1]
    /\ r.released_year < w.year_range[2]
    /\ r.bpm >= w.bpm_range[1]
    /\ r.bpm <= w.bpm_range[2]

\* Lines 177-182.
BasicMask(r, w) ==
    /\ r.released_year >= w.year_range[1]
    /\ r.released_year <= w.year_range[2]
    /\ r.bpm >= w.bpm_range[1]
    /\ r.bpm <= w.bpm_range[2]

\* Variant: the energy test made against the lower limit twice.
AdvancedMask_EnergyIndexSlip(r, w) ==
    /\ r.danceability >= w.danceability[1]
    /\ r.danceability <= w.danceability[2]
    /\ r.energy >= w.energy[1]
    /\ r.energy <= w.energy[1]
    /\ r.valence >= w.valence[1]
    /\ r.valence <= w.valence[2]

\* Lines 190-197.
AdvancedMask(r, w) ==
    /\ r.danceability >= w.danceability[1]
    /\ r.danceability <= w.danceability[2]
    /\ r.energy >= w.energy[1]
    /\ r.energy <= w.energy[2]
    /\ r.valence >= w.valence[1]
    /\ r.valence <= w.valence[2]

\* Lines 177-197: filtered_df, stage by stage.
ApplyFilters(table, w) ==
    LET basic  == SelectSeq(table, LAMBDA r : BasicMask(r, w))
        keyed  == IF w.selected_key # Semua
                  THEN SelectSeq(basic, LAMBDA r : r.key = w.selected_key)
                  ELSE basic
        moded  == IF w.selected_mode # Semua
                  THEN SelectSeq(keyed, LAMBDA r : r.mode = w.selected_mode)
                  ELSE keyed
    IN  SelectSeq(moded, LAMBDA r : AdvancedMask(r, w))

\* Variant: the guard never taken.
IsEmpty_Never(view) == FALSE

\* Line 209.
IsEmpty(view) == Len(view) = 0

\* ------------------------------------------------------------------- metrics
RECURSIVE SumStreams(_)
SumStreams(rows) ==
    IF Len(rows) = 0 THEN 0 ELSE rows[1].streams + SumStreams(Tail(rows))

\* Series.nunique() of the artist_name column: distinct cell values.
nunique_artist_name(view) == Cardinality(Column(view, "artist_name"))

\* Lines 215-217.
KeyMetrics(view) ==
    [total_tracks |-> Len(view),
     total_artists |-> nunique_artist_name(view),
     total_streams |-> SumStreams(view)]

\* ------------------------------------------------------------ artists, tracks
\* Lines 272-273: one row per piece of the split artist_name.
RECURSIVE explode_artists(_)
explode_artists(rows) ==
    IF Len(rows) = 0 THEN <<>>
    ELSE LET pieces == str_split(rows[1].artist_name, SplitSep)
         IN  [i \in 1..Len(pieces) |-> [rows[1] EXCEPT !.artist_name = pieces[i]]]
                 \o explode_artists(Tail(rows))

\* Variant: the exploded frame bound to the view's own name.
ViewAfterArtistSplit_Exploded(view) == explode_artists(view)

\* Line 271: the split works on a copy, the view itself keeps its rows.
ViewAfterArtistSplit(view) == view

Entry(name, value) == [name |-> name, value |-> value]

\* The distinct values of a column, in order of first appearance.
RECURSIVE unique(_)
unique(values) ==
    IF Len(values) = 0 THEN <<>>
    ELSE LET front == unique(SubSeq(values, 1, Len(values) - 1))
             last  == values[Len(values)]
         IN  IF last \in Range(front) THEN front ELSE Append(front, last)

\* The distinct artist names of the exploded frame, in order of first
\* appearance.
ArtistsInOrder(frame) == unique([i \in 1..Len(frame) |-> frame[i].artist_name])

CountOf(frame, name) == Cardinality({i \in 1..Len(frame) : frame[i].artist_name = name})

StreamsOf(frame, name) ==
    SumStreams(SelectSeq(frame, LAMBDA r : r.artist_name = name))

NonIncreasing(s) == \A i \in 1..(Len(s) - 1) : s[i].value >= s[i + 1].value

\* The orders an unstable descending sort (kind='quicksort') may leave the
\* entries in: every arrangement with non-increasing values.
SortDescOutcomes(entries) ==
    LET n     == Len(entries)
        perms == {f \in [1..n -> 1..n] : \A i, j \in 1..n : i # j => f[i] # f[j]}
    IN  {q \in {[i \in 1..n |-> entries[f[i]]] : f \in perms} : NonIncreasing(q)}

\* x put behind every entry whose value is at least x's.
RECURSIVE InsertDesc(_, _)
InsertDesc(sorted, x) ==
    IF Len(sorted) = 0 THEN <<x>>
    ELSE IF Head(sorted).value >= x.value
         THEN <<Head(sorted)>> \o InsertDesc(Tail(sorted), x)
         ELSE <<x>> \o sorted

RECURSIVE StableDesc(_)
StableDesc(entries) ==
    IF Len(entries) = 0 THEN <<>>
    ELSE InsertDesc(StableDesc(SubSeq(entries, 1, Len(entries) - 1)),
                    entries[Len(entries)])

\* Variant: head(n) in place of nlargest(n).
nlargest_Unsorted(entries, n) == {head(entries, n)}

\* Series.nlargest(n), keep='first'.  With fewer than n entries left out,
\* pandas selects by a stable sort: equal values stay in the order the series
\* holds them.  With n covering the whole series it falls back to
\* sort_values(ascending=False).head(n), the default unstable sort.
nlargest(entries, n) ==
    IF n >= Len(entries)
    THEN {head(q, n) : q \in SortDescOutcomes(entries)}
    ELSE {head(StableDesc(entries), n)}

\* Series.value_counts(): one entry per distinct value, sorted by count,
\* descending, with sort_values' default unstable sort.
value_counts_outcomes(frame) ==
    LET names == ArtistsInOrder(frame)
    IN  SortDescOutcomes([i \in 1..Len(names) |-> Entry(names[i], CountOf(frame, names[i]))])

\* Line 277.
TopArtistsCountOutcomes(frame, n) ==
    UNION {nlargest(vc, n) : vc \in value_counts_outcomes(frame)}

\* groupby(...) sorts the group keys (sort=True): names in ascending order.
RECURSIVE InsertName(_, _)
InsertName(sorted, x) ==
    IF Len(sorted) = 0 THEN <<x>>
    ELSE IF StrLess(x, Head(sorted))
         THEN <<x>> \o sorted
         ELSE <<Head(sorted)>> \o InsertName(Tail(sorted), x)

RECURSIVE SortNames(_)
SortNames(names) ==
    IF Len(names) = 0 THEN <<>>
    ELSE InsertName(SortNames(Tail(names)), Head(names))

groupby_sum_streams(frame) ==
    LET names == SortNames(ArtistsInOrder(frame))
    IN  [i \in 1..Len(names) |-> Entry(names[i], StreamsOf(frame, names[i]))]

\* Line 287.
TopArtistsStreamsOutcomes(frame, n) == nlargest(groupby_sum_streams(frame), n)

\* Line 300: sort_values(by='streams', ascending=False).head(...), the sort
\* being the default unstable one.
TopTracksOutcomes(view, n) ==
    LET entries == [i \in 1..Len(view) |-> Entry(i, view[i].streams)]
        sorted  == {[j \in 1..Len(q) |-> view[q[j].name]] : q \in SortDescOutcomes(entries)}
    IN  {head(q, n) : q \in sorted}

\* Line 420: the export is the view itself, row for row.
to_csv(view) == view

\* ---------------------------------------------------- kinds of widget change
RangeFields == {"year_range", "bpm_range", "danceability", "energy", "valence"}

OtherFieldsEqual(w1, w2, f) == \A g \in (DOMAIN w1) \ {f} : w1[g] = w2[g]

\* w2 is w1 with exactly one range made wider (narrower), all else equal.
WidensOneRange(w1, w2) ==
    \E f \in RangeFields :
        /\ OtherFieldsEqual(w1, w2, f)
        /\ w2[f] # w1[f]
        /\ w2[f][1] <= w1[f][1]
        /\ w2[f][2] >= w1[f][2]

NarrowsOneRange(w1, w2) == WidensOneRange(w2, w1)

KindOfChange(old, w) ==
    IF old = <<>> THEN "first"
    ELSE IF WidensOneRange(old[1], w) THEN "widened"
    ELSE IF NarrowsOneRange(old[1], w) THEN "narrowed"
    ELSE "other"

\* ---------------------------------------------------------------- the session
VARIABLES
    file,                 \* the source file on disk
    cache,                \* st.cache_data: <<>> or <<what load_data returned>>
    pc,                   \* where the script run is
    load_result,          \* "pending", "table", "none" or "raised"
    df,                   \* the base table of this run
    shown,                \* the message on screen: none, error, warning, exception
    widgets,              \* <<>> or <<the widget values of the latest run>>
    filtered_df,          \* the Filtered View of the latest run
    last_change,          \* history, while pc = "filtered": how the widgets just changed
    prev_len,             \* history, while pc = "filtered": rows of the view just replaced
    computed,             \* the aggregate and export steps this run has executed
    metrics, df_artists, top_artists_count, top_artists_streams, top_tracks, csv

vars == <<file, cache, pc, load_result, df, shown, widgets, filtered_df,
          last_change, prev_len, computed, metrics, df_artists,
          top_artists_count, top_artists_streams, top_tracks, csv>>

outputs == <<metrics, df_artists, top_artists_count, top_artists_streams, top_tracks, csv>>

NoMetrics == [total_tracks |-> 0, total_artists |-> 0, total_streams |-> 0]

\* The history of the filter step is dropped once the run moves on.
ForgetChange ==
    /\ last_change' = "none"
    /\ prev_len' = 0

FreshRun ==
    /\ pc' = "start"
    /\ load_result' = "pending"
    /\ df' = <<>>
    /\ shown' = "none"
    /\ computed' = {}
    /\ metrics' = NoMetrics
    /\ df_artists' = <<>>
    /\ top_artists_count' = <<>>
    /\ top_artists_streams' = <<>>
    /\ top_tracks' = <<>>
    /\ csv' = <<>>

Init ==
    /\ file \in Files
    /\ cache = <<>>
    /\ pc = "start"
    /\ load_result = "pending"
    /\ df = <<>>
    /\ shown = "none"
    /\ widgets = <<>>
    /\ filtered_df = <<>>
    /\ last_change = "none"
    /\ prev_len = 0
    /\ computed = {}
    /\ metrics = NoMetrics
    /\ df_artists = <<>>
    /\ top_artists_count = <<>>
    /\ top_artists_streams = <<>>
    /\ top_tracks = <<>>
    /\ csv = <<>>

\* Line 121: load_data through st.cache_data.  A raised exception ends the
\* run and is not cached.
LoadData ==
    /\ pc = "start"
    /\ LET got == IF cache # <<>> THEN cache[1] ELSE load_data(file)
       IN  /\ load_result' = got.result
           /\ df' = got.table
           /\ cache' = IF got.result = "raised" THEN cache ELSE <<got>>
           /\ pc' = IF got.result = "raised" THEN "crashed" ELSE "loaded"
           /\ shown' = CASE got.result = "raised" -> "exception"
                         [] got.result = "none" -> "error"
                         [] OTHER -> shown
    /\ UNCHANGED <<file, widgets, filtered_df, last_change, prev_len, computed, outputs>>

\* Lines 123-124.
StopNoData ==
    /\ pc = "loaded"
    /\ DfIsNone(load_result)
    /\ pc' = "stopped"
    /\ UNCHANGED <<file, cache, load_result, df, shown, widgets, filtered_df,
                   last_change, prev_len, computed, outputs>>

\* Lines 127-197: the widgets return their values and the view is computed.
\* On a table without rows min() is NaN and int() raises at line 139.
SidebarAndFilter ==
    /\ pc = "loaded"
    /\ ~DfIsNone(load_result)
    /\ IF Len(df) = 0
       THEN /\ pc' = "crashed"
            /\ shown' = "exception"
            /\ UNCHANGED <<widgets, filtered_df, last_change, prev_len>>
       ELSE \E w \in (IF widgets = <<>> THEN {DefaultWidgets(df)}
                      ELSE WidgetsAfterInteraction(df, widgets[1])) :
                /\ widgets' = <<w>>
                /\ filtered_df' = ApplyFilters(df, w)
                /\ last_change' = KindOfChange(widgets, w)
                /\ prev_len' = Len(filtered_df)
                /\ pc' = "filtered"
                /\ UNCHANGED shown
    /\ UNCHANGED <<file, cache, load_result, df, computed, outputs>>

\* Lines 209-211.
StopEmpty ==
    /\ pc = "filtered"
    /\ IsEmpty(filtered_df)
    /\ shown' = "warning"
    /\ pc' = "stopped"
    /\ ForgetChange
    /\ UNCHANGED <<file, cache, load_result, df, widgets, filtered_df,
                   computed, outputs>>

\* Lines 213-264: the key metrics and the overview tab.
Metrics ==
    /\ pc = "filtered"
    /\ ~IsEmpty(filtered_df)
    /\ metrics' = KeyMetrics(filtered_df)
    /\ computed' = computed \cup {"metrics", "wordcloud"}
    /\ pc' = "metrics"
    /\ ForgetChange
    /\ UNCHANGED <<file, cache, load_result, df, shown, widgets, filtered_df,
                   df_artists, top_artists_count, top_artists_streams,
                   top_tracks, csv>>

\* Lines 267-317: the artist and track tab.
ArtistTab ==
    /\ pc = "metrics"
    /\ LET frame == explode_artists(filtered_df)
           n     == widgets[1].selected_artists_count
       IN  /\ df_artists' = frame
           /\ filtered_df' = ViewAfterArtistSplit(filtered_df)
           /\ top_artists_count' \in TopArtistsCountOutcomes(frame, n)
           /\ top_artists_streams' \in TopArtistsStreamsOutcomes(frame, n)
           /\ top_tracks' \in TopTracksOutcomes(filtered_df, TopTracksCount)
    /\ computed' = computed \cup {"top_artists_count", "top_artists_streams",
                                  "top_tracks", "danceability_scatter"}
    /\ pc' = "artists"
    /\ UNCHANGED <<file, cache, load_result, df, shown, widgets, last_change,
                   prev_len, metrics, csv>>

\* Lines 319-412: group sizes, feature means, correlation matrix and trends;
\* all of them read the view (and df, line 354) and write nothing back.
AudioTrendTabs ==
    /\ pc = "artists"
    /\ computed' = computed \cup {"key_mode_counts", "avg_features", "corr",
                                  "songs_per_year", "songs_per_month",
                                  "decade_features", "bpm_trend"}
    /\ pc' = "audio"
    /\ UNCHANGED <<file, cache, load_result, df, shown, widgets, filtered_df,
                   last_change, prev_len, outputs>>

\* Lines 414-425: the export, when the checkbox is ticked.
DataExplorer ==
    /\ pc = "audio"
    /\ \E ticked \in BOOLEAN :
           IF ticked
           THEN /\ csv' = to_csv(filtered_df)
                /\ computed' = computed \cup {"export"}
           ELSE UNCHANGED <<csv, computed>>
    /\ pc' = "done"
    /\ UNCHANGED <<file, cache, load_result, df, shown, widgets, filtered_df,
                   last_change, prev_len, metrics, df_artists, top_artists_count,
                   top_artists_streams, top_tracks>>

\* A user interaction (or a reload) runs the script again from the top; the
\* widget state and the cache outlive the run.
Rerun ==
    /\ pc \in {"done", "stopped", "crashed"}
    /\ FreshRun
    /\ UNCHANGED <<file, cache, widgets, filtered_df, last_change, prev_len>>

Next ==
    \/ LoadData
    \/ StopNoData
    \/ SidebarAndFilter
    \/ StopEmpty
    \/ Metrics
    \/ ArtistTab
    \/ AudioTrendTabs
    \/ DataExplorer
    \/ Rerun

Spec == Init /\ [][Next]_vars

\* ======================================================================
\* Properties
\* ======================================================================
\* The view of this run has been computed.
AfterFilter ==
    \/ pc \in {"filtered", "metrics", "artists", "audio", "done"}
    \/ pc = "stopped" /\ load_result = "table"

AfterMetrics == pc \in {"metrics", "artists", "audio", "done"}

AfterArtistTab == pc \in {"artists", "audio", "done"}

Project(r) ==
    [track_name |-> r.track_name, artist_name |-> r.artist_name,
     released_year |-> r.released_year, bpm |-> r.bpm, key |-> r.key,
     mode |-> r.mode, danceability |-> r.danceability, energy |-> r.energy,
     valence |-> r.valence, streams |-> r.streams]

Abs(x) == IF x >= 0 THEN x ELSE -x

\* The whole number left of the decimal point of the number t tenths.
WholePart(t) ==
    CHOOSE q \in (-(Abs(t) \div 10) - 1)..((Abs(t) \div 10) + 1) :
        /\ 10 * Abs(q) <= Abs(t)
        /\ Abs(t) < 10 * Abs(q) + 10
        /\ (t >= 0 => q >= 0)
        /\ (t <= 0 => q <= 0)

NumericRows == {raw \in Range(file.rows) : raw.streams.kind = "num"}

Expected(raw) == [raw EXCEPT !.streams = WholePart(raw.streams.tenths)]

\* ---------------------------------------------------------------------- C1
\* The conjunction of the claim for one row.
Satisfies(r, w) ==
    /\ w.year_range[1] <= r.released_year /\ r.released_year <= w.year_range[2]
    /\ w.bpm_range[1] <= r.bpm /\ r.bpm <= w.bpm_range[2]
    /\ (w.selected_key = Semua \/ r.key = w.selected_key)
    /\ (w.selected_mode = Semua \/ r.mode = w.selected_mode)
    /\ w.danceability[1] <= r.danceability /\ r.danceability <= w.danceability[2]
    /\ w.energy[1] <= r.energy /\ r.energy <= w.energy[2]
    /\ w.valence[1] <= r.valence /\ r.valence <= w.valence[2]

\* C1: the Filtered View holds exactly the rows of the base table that meet
\* every constraint, all range bounds inclusive and 'Semua' skipping the key
\* or mode test (so a row without a key stays); no row appears twice and none
\* comes from outside the base table.
C1_FilteredViewExact ==
    AfterFilter =>
        /\ Range(filtered_df) = {r \in Range(df) : Satisfies(r, widgets[1])}
        /\ Cardinality(Range(filtered_df)) = Len(filtered_df)

C1_Witness ==
    /\ pc = "filtered"
    /\ widgets[1].selected_key = Semua
    /\ widgets[1].selected_mode # Semua
    /\ \E i \in 1..Len(filtered_df) : filtered_df[i].key = NaN
    /\ Len(filtered_df) < Len(df)

\* ---------------------------------------------------------------------- C2
JointAB == <<"A", ",", " ", "B">>

\* C2: a row whose artist field is "A, B" gives the artist aggregates one
\* row (with its streams) for "A", one for "B" and none for "A, B".
C2_JointFieldCountsPerArtist ==
    AfterArtistTab =>
        \A i \in 1..Len(filtered_df) :
            filtered_df[i].artist_name = JointAB =>
                /\ [filtered_df[i] EXCEPT !.artist_name = <<"A">>] \in Range(df_artists)
                /\ [filtered_df[i] EXCEPT !.artist_name = <<"B">>] \in Range(df_artists)
                /\ CountOf(df_artists, JointAB) = 0

\* ---------------------------------------------------------------------- C3
RECURSIVE Flatten(_)
Flatten(ss) == IF Len(ss) = 0 THEN <<>> ELSE Head(ss) \o Flatten(Tail(ss))

\* The individual names of an artist field, whichever of ", " and ",_"
\* joins them.
IndividualNames(field) ==
    LET bySpace == str_split(field, <<",", " ">>)
    IN  Range(Flatten([i \in 1..Len(bySpace) |-> str_split(bySpace[i], SplitSep)]))

\* C3: the 'distinct artists' metric is the number of distinct individual
\* artist names after splitting the multi-artist fields.
C3_DistinctIndividualArtists ==
    AfterMetrics =>
        metrics.total_artists =
            Cardinality(UNION {IndividualNames(r.artist_name) : r \in Range(filtered_df)})

\* ---------------------------------------------------------------------- C4
\* C4: a run whose Filtered View has no rows shows the 'no matching data'
\* warning and stops; it executes no aggregate and no export, and whatever
\* aggregate a run has executed was computed on a view with rows.
C4_EmptyViewStopsRun ==
    /\ (AfterFilter /\ Len(filtered_df) = 0) =>
           /\ pc \in {"filtered", "stopped"}
           /\ (pc = "stopped" => shown = "warning")
           /\ computed = {}
           /\ metrics = NoMetrics
           /\ df_artists = <<>> /\ top_artists_count = <<>>
           /\ top_artists_streams = <<>> /\ top_tracks = <<>> /\ csv = <<>>
    /\ computed # {} => Len(filtered_df) > 0

C4_Witness ==
    /\ pc = "stopped"
    /\ shown = "warning"
    /\ Len(df) > 0
    /\ Len(filtered_df) = 0
    /\ computed = {}

\* ---------------------------------------------------------------------- C5
\* C5: with the source file missing or unreadable there is never a table;
\* the error is on screen and the run ends before any slider limit, filter,
\* aggregate or export is computed.
C5_LoadFailureHalts ==
    file.status # "ok" =>
        /\ load_result \in {"pending", "none", "raised"}
        /\ df = <<>>
        /\ widgets = <<>> /\ filtered_df = <<>>
        /\ computed = {} /\ csv = <<>>
        /\ pc \in {"start", "loaded", "stopped", "crashed"}
        /\ (pc \in {"loaded", "stopped"} => load_result = "none" /\ shown = "error")
        /\ (pc = "crashed" => load_result = "raised" /\ shown = "exception")
        /\ (file.status = "missing" => pc # "crashed")

C5_Witness ==
    /\ file.status = "missing"
    /\ pc = "stopped"
    /\ load_result = "none"
    /\ shown = "error"

\* ---------------------------------------------------------------------- C6
\* C6 as stated: every streams value of the table is a non-negative integer,
\* and a source row whose cell is text, negative or fractional is absent.
C6_StreamsNonNegativeInteger ==
    load_result = "table" =>
        /\ \A i \in 1..Len(df) : df[i].streams \in Nat
        /\ {Project(df[i]) : i \in 1..Len(df)} =
               {Expected(raw) : raw \in {x \in NumericRows :
                   x.streams.tenths >= 0 /\ x.streams.tenths % 10 = 0}}

\* C6, amended: every streams value of the table is an integer; the rows of
\* the table are exactly the source rows whose cell parses as a number, a
\* fractional value cut down to its whole part and a negative one kept; a
\* row whose cell does not parse is absent.
C6_UnparseableStreamsDropped ==
    load_result = "table" =>
        /\ \A i \in 1..Len(df) : df[i].streams \in Int
        /\ {Project(df[i]) : i \in 1..Len(df)} = {Expected(raw) : raw \in NumericRows}

C6_Witness ==
    /\ load_result = "table"
    /\ \E raw \in Range(file.rows) : raw.streams.kind = "text"
    /\ \E i \in 1..Len(df) : df[i].streams < 0

\* ---------------------------------------------------------------------- C7
\* C7 as stated: no two rows of the table share track name and artist name.
C7_OneRowPerTrackIdentity ==
    load_result = "table" =>
        \A i, j \in 1..Len(df) :
            i # j => <<df[i].track_name, df[i].artist_name>>
                         # <<df[j].track_name, df[j].artist_name>>

\* C7, amended: no two rows of the table are identical across all columns,
\* and rows that share track name and artist name but differ in another
\* column are all kept.
C7_NoIdenticalRows ==
    load_result = "table" =>
        /\ \A i, j \in 1..Len(df) : i # j => df[i] # df[j]
        /\ \A a, b \in NumericRows :
               (a.track_name = b.track_name /\ a.artist_name = b.artist_name
                    /\ Expected(a) # Expected(b))
               => {Expected(a), Expected(b)} \subseteq {Project(df[i]) : i \in 1..Len(df)}

C7_Witness ==
    /\ load_result = "table"
    /\ Len(df) = 1
    /\ \E i, j \in 1..Len(file.rows) :
           /\ i < j
           /\ file.rows[i] = file.rows[j]
           /\ file.rows[i].streams.kind = "num"

\* ---------------------------------------------------------------------- C8
Smaller(a, b) == IF a < b THEN a ELSE b

\* top holds the n best of the entries valued by val (all of them when
\* there are fewer), best first.
RankedByValue(top, val, n) ==
    /\ Len(top) = Smaller(n, Cardinality(DOMAIN val))
    /\ \A i \in 1..Len(top) : top[i].name \in DOMAIN val /\ top[i].value = val[top[i].name]
    /\ \A i, j \in 1..Len(top) : i # j => top[i].name # top[j].name
    /\ \A i, j \in 1..Len(top) : i < j => top[i].value >= top[j].value
    /\ \A a \in DOMAIN val : \A i \in 1..Len(top) :
           (\A j \in 1..Len(top) : top[j].name # a) => val[a] <= top[i].value

\* Among equal values, the entry with the smaller rank comes first and is the
\* one kept at the cut-off.
TiesByRank(top, val, rank) ==
    /\ \A i, j \in 1..Len(top) :
           (i < j /\ top[i].value = top[j].value) => rank[top[i].name] < rank[top[j].name]
    /\ \A a \in DOMAIN val : \A i \in 1..Len(top) :
           ((\A j \in 1..Len(top) : top[j].name # a) /\ val[a] = top[i].value)
               => rank[top[i].name] < rank[a]

ArtistNames == Column(df_artists, "artist_name")

CountByArtist == [a \in ArtistNames |-> CountOf(df_artists, a)]

StreamsByArtist == [a \in ArtistNames |-> StreamsOf(df_artists, a)]

StreamsByTrack == [r \in Range(filtered_df) |-> r.streams]

TopTrackEntries == [i \in 1..Len(top_tracks) |-> Entry(top_tracks[i], top_tracks[i].streams)]

\* Position of the first row of the artist in the exploded frame.
ArtistEncounter ==
    [a \in ArtistNames |-> Min({i \in 1..Len(df_artists) : df_artists[i].artist_name = a})]

TrackEncounter ==
    [r \in Range(filtered_df) |-> Min({i \in 1..Len(filtered_df) : filtered_df[i] = r})]

\* Number of names that sort before the artist's.
ArtistNameRank ==
    [a \in ArtistNames |-> Cardinality({b \in ArtistNames : StrLess(b, a)})]

AllRankedByValue ==
    /\ RankedByValue(top_artists_count, CountByArtist, widgets[1].selected_artists_count)
    /\ RankedByValue(top_artists_streams, StreamsByArtist, widgets[1].selected_artists_count)
    /\ RankedByValue(TopTrackEntries, StreamsByTrack, TopTracksCount)

\* C8 as stated: each ranking holds the N highest entries, equal values in
\* the order their rows or groups were first met in the view.
C8_TiesByEncounterOrder ==
    AfterArtistTab =>
        /\ AllRankedByValue
        /\ TiesByRank(top_artists_count, CountByArtist, ArtistEncounter)
        /\ TiesByRank(top_artists_streams, StreamsByArtist, ArtistEncounter)
        /\ TiesByRank(TopTrackEntries, StreamsByTrack, TrackEncounter)

\* C8, amended: each ranking holds the N highest entries (all of them when
\* there are fewer than N), highest first; when there are more artists than
\* N, artists of equal summed streams are ranked, and kept at the cut-off, in
\* ascending order of their names; otherwise, and for equal occurrence counts
\* and for tracks with equal streams, the order of equal values is not fixed.
C8_TopNHighestTiesByName ==
    AfterArtistTab =>
        /\ AllRankedByValue
        /\ widgets[1].selected_artists_count < Cardinality(ArtistNames) =>
               TiesByRank(top_artists_streams, StreamsByArtist, ArtistNameRank)

C8_Witness ==
    /\ AfterArtistTab
    /\ Len(top_artists_streams) < Cardinality(ArtistNames)
    /\ \E a \in ArtistNames :
           /\ \A j \in 1..Len(top_artists_streams) : top_artists_streams[j].name # a
           /\ StreamsByArtist[a] = top_artists_streams[Len(top_artists_streams)].value
    /\ Len(top_tracks) < Len(filtered_df)

\* ---------------------------------------------------------------------- C9
\* C9: a rerun that only widens one range constraint yields a view that
\* contains the previous one, and one that only narrows a range yields a view
\* contained in it.
C9_RangeMonotone ==
    [][(pc = "loaded" /\ pc' = "filtered" /\ widgets # <<>>) =>
          /\ WidensOneRange(widgets[1], widgets'[1]) =>
                 /\ Range(filtered_df) \subseteq Range(filtered_df')
                 /\ Len(filtered_df) <= Len(filtered_df')
          /\ NarrowsOneRange(widgets[1], widgets'[1]) =>
                 /\ Range(filtered_df') \subseteq Range(filtered_df)
                 /\ Len(filtered_df') <= Len(filtered_df)]_vars

C9_Witness ==
    /\ pc = "filtered"
    /\ last_change = "widened"
    /\ prev_len < Len(filtered_df)

\* --------------------------------------------------------------------- C10
\* C10: what load_data returned stays as it is; every run works on that same
\* table, no step of a run changes it, and the steps after the filter leave
\* the Filtered View as the filter produced it.
C10_TableAndViewUntouched ==
    [][/\ cache # <<>> => cache' = cache
       /\ load_result' = "table" => df' = cache'[1].table
       /\ (load_result = "table" /\ load_result' = "table") => df' = df
       /\ pc \in {"filtered", "metrics", "artists", "audio"} => filtered_df' = filtered_df]_vars

C10_Witness ==
    /\ pc = "done"
    /\ "export" \in computed
    /\ csv = filtered_df
    /\ Len(df_artists) > Len(filtered_df)
    /\ \E i \in 1..Len(df) : df[i] \notin Range(filtered_df)

====
